---- MODULE Spec2Model ----
(***************************************************************************)
(* Session layer of the SEM6000 driver (sem6000.py, message.py).          *)
(*                                                                         *)
(* SEM6000Delegate buffers the fragments the transport pushes and hands   *)
(* their concatenation to the parser; SEM6000 writes one command, waits   *)
(* for fragments and validates the decoded notification per operation.    *)
(* The byte codec (parser.py, encoder.py) and the transport (bluepy) are  *)
(* outside the sources: the codec is modelled at its interface, the       *)
(* transport as the environment that delivers fragments or times out.     *)
(***************************************************************************)
EXTENDS Integers, Sequences, FiniteSets, TLC

VARIABLES
    raw_notifications,  \* SEM6000Delegate._raw_notifications: fragments in receipt order
    pc,                 \* position of the caller: "ready", "wait", "consume"
    op,                 \* public operation in progress (or the last one called)
    page_number,        \* request_scheduler: page of the exchange in progress
    notification,       \* request_scheduler: the page-0 notification being returned
    written,            \* commands written to the characteristic by the current call
    mark,               \* number of fragments buffered when the last command was written
    delivered,          \* fragments the transport delivered since that command was written
    timedOut,           \* the last wait ended because waitForNotifications returned False
    parsed,             \* what the last consume_notification handed to the parser, and
                        \* what had been delivered for its command by then
    pages,              \* request_scheduler: notifications decoded so far by the current call
    result,             \* outcome of the last call: returned value or raised failure
    prevFailed,         \* the call before the last one raised
    calls,              \* number of public operations called on the session
    split,              \* reassembly runs: the fragments a frame is pushed in
    pending,            \* reassembly runs: fragments of the split not pushed yet
    pin,                \* SEM6000.pin: the pin the session was constructed with
    cmd,                \* __main__: sys.argv[3], the command the script was started with
    is_active,          \* set_reduced_period: argument is_active
    start_isotime,      \* set_reduced_period: argument start_isotime
    end_isotime,        \* set_reduced_period: argument end_isotime
    elapsed,            \* wait runs: seconds spent in _wait_for_notifications so far
    weekdays_passed,    \* Scheduler.__init__: the values of that list when it was passed
    repeat_on_weekdays, \* Scheduler.__init__: the list passed as repeat_on_weekdays
    scheduler           \* Scheduler.__init__: the object constructed, or the failure

vars == <<raw_notifications, pc, op, page_number, notification, written, mark,
          delivered, timedOut, parsed, pages, result, prevFailed, calls, split, pending,
          pin, cmd, is_active, start_isotime, end_isotime,
          weekdays_passed, elapsed, repeat_on_weekdays, scheduler>>

\* what the caller passes in: fixed once the session or the call is set up
arguments == <<pin, cmd, is_active, start_isotime, end_isotime, weekdays_passed>>

\* the state of the wait runs and of the Scheduler constructor
standalone == <<elapsed, repeat_on_weekdays, scheduler>>

----------------------------------------------------------------------------
(* Bounds of the model *)

\* most fragments the buffer holds before the transport stops delivering
MaxFrags == 2
\* most public operations called on one session
MaxCalls == 2
\* largest page index the number_of_schedulers of a scheduler page asks for
MaxPages == 2
\* longest frame whose splits are pushed in the reassembly runs
MaxLen == 4

----------------------------------------------------------------------------
(* Bytes and fragments *)

\* the frame sentinel b'\xff\xff'
FF == 255
Sentinel == <<FF, FF>>

\* data = b''; for n in raw_notifications: data += n
RECURSIVE Concat(_)
Concat(frags) ==
    IF Len(frags) = 0 THEN <<>>
    ELSE Head(frags) \o Concat(Tail(frags))

\* a completeness test that looks at the concatenated bytes, not at the last fragment
has_final_concat(raw) ==
    LET data == Concat(raw)
    IN  Len(data) >= 2 /\ SubSeq(data, Len(data) - 1, Len(data)) = Sentinel

\* a completeness test that looks at the last byte of the last fragment only
has_final_last_byte(raw) ==
    IF Len(raw) = 0 THEN FALSE
    ELSE LET last_notification == raw[Len(raw)]
         IN  IF Len(last_notification) < 1 THEN FALSE
             ELSE last_notification[Len(last_notification)] = FF

\* SEM6000Delegate.has_final_raw_notification
has_final_raw_notification(raw) ==
    IF Len(raw) = 0 THEN FALSE
    ELSE LET last_notification == raw[Len(raw)]
         IN  IF Len(last_notification) < 2 THEN FALSE
             ELSE SubSeq(last_notification, Len(last_notification) - 1,
                         Len(last_notification)) = Sentinel

----------------------------------------------------------------------------
(* Message taxonomy (message.py) *)

\* the public operations of SEM6000
Ops == {"authorize", "change_pin", "reset_pin", "power_on", "power_off",
        "led_on", "led_off", "set_date_and_time", "request_settings",
        "set_power_limit", "set_prices", "set_reduced_period",
        "request_timer_status", "set_timer", "request_scheduler"}

\* the notification classes, in the order of their declaration
Variants == <<"AuthorizationNotification", "ChangePinNotification",
              "ResetPinNotification", "PowerSwitchNotification",
              "LEDSwitchNotification", "SynchronizeDateAndTimeNotification",
              "RequestedSettingsNotification", "PowerLimitSetNotification",
              "PricesSetNotification", "ReducedPeriodSetNotification",
              "RequestedTimerStatusNotification", "TimerSetNotification",
              "SchedulerRequestedNotification", "SchedulerSetNotification">>

VariantNames == {Variants[i] : i \in 1..Len(Variants)}

\* subclasses of AbstractCommandConfirmationNotification: they carry was_successful
ConfirmationVariants ==
    VariantNames \ {"RequestedSettingsNotification",
                    "RequestedTimerStatusNotification",
                    "SchedulerRequestedNotification"}

\* a notification object; fields a class does not have keep their default
Notification(v, ok, n, entries) ==
    [variant |-> v, was_successful |-> ok,
     number_of_schedulers |-> n, scheduler_entries |-> entries]

\* AbstractCommandConfirmationNotification.__init__(was_successful)
Confirmation(v, ok) == Notification(v, ok, 0, <<>>)

\* RequestedSettingsNotification / RequestedTimerStatusNotification (payload not modelled)
DataBearing(v) == Notification(v, FALSE, 0, <<>>)

\* SchedulerRequestedNotification.__init__(number_of_schedulers, scheduler_entries)
SchedulerRequestedNotification(n, entries) ==
    Notification("SchedulerRequestedNotification", FALSE, n, entries)

\* the value of a variable that holds no notification (Python None)
None == Notification("None", FALSE, 0, <<>>)

\* SEM6000.__init__: self.pin = '0000' unless a pin is passed
DefaultPin == "0000"

\* the pins a session is constructed with: the default and one passed by the caller
Pins == {DefaultPin, "1234"}

\* the pin of a command of a class that carries none
NoPin == "none"

\* a command whose constructor drops the page it is given
CommandWithoutPage(c, on, page) ==
    [cmd |-> c, on |-> on, page_number |-> 0, pin |-> NoPin]

\* a command object: its class, the switch state and the page it carries
Command(c, on, page) == [cmd |-> c, on |-> on, page_number |-> page, pin |-> NoPin]

\* AuthorizeCommand(pin) / ChangePinCommand(pin, new_pin): the commands that carry a pin
PinCommand(c, p) == [cmd |-> c, on |-> FALSE, page_number |-> 0, pin |-> p]

\* the command each operation constructs (first statement of every operation)
CommandOf(o, page) ==
    CASE o = "authorize"            -> PinCommand("AuthorizeCommand", pin)
      [] o = "change_pin"           -> PinCommand("ChangePinCommand", pin)
      [] o = "reset_pin"            -> Command("ResetPinCommand", FALSE, 0)
      [] o = "power_on"             -> Command("PowerSwitchCommand", TRUE, 0)
      [] o = "power_off"            -> Command("PowerSwitchCommand", FALSE, 0)
      [] o = "led_on"               -> Command("LEDSwitchCommand", TRUE, 0)
      [] o = "led_off"              -> Command("LEDSwitchCommand", FALSE, 0)
      [] o = "set_date_and_time"    -> Command("SynchronizeDateAndTimeCommand", FALSE, 0)
      [] o = "request_settings"     -> Command("RequestSettingsCommand", FALSE, 0)
      [] o = "set_power_limit"      -> Command("SetPowerLimitCommand", FALSE, 0)
      [] o = "set_prices"           -> Command("SetPricesCommand", FALSE, 0)
      [] o = "set_reduced_period"   -> Command("SetReducedPeriodCommand", FALSE, 0)
      [] o = "request_timer_status" -> Command("RequestTimerStatusCommand", FALSE, 0)
      [] o = "set_timer"            -> Command("SetTimerCommand", FALSE, 0)
      [] o = "request_scheduler"    -> Command("RequestSchedulerCommand", FALSE, page)

\* the isinstance tests with the test of the power operations copied to the LED
\* operations
ExpectedVariantCopied(o) ==
    CASE o = "authorize"            -> "AuthorizationNotification"
      [] o = "change_pin"           -> "ChangePinNotification"
      [] o = "reset_pin"            -> "ResetPinNotification"
      [] o = "power_on"             -> "PowerSwitchNotification"
      [] o = "power_off"            -> "PowerSwitchNotification"
      [] o = "led_on"               -> "PowerSwitchNotification"
      [] o = "led_off"              -> "PowerSwitchNotification"
      [] o = "set_date_and_time"    -> "SynchronizeDateAndTimeNotification"
      [] o = "request_settings"     -> "RequestedSettingsNotification"
      [] o = "set_power_limit"      -> "PowerLimitSetNotification"
      [] o = "set_prices"           -> "PricesSetNotification"
      [] o = "set_reduced_period"   -> "ReducedPeriodSetNotification"
      [] o = "request_timer_status" -> "RequestedTimerStatusNotification"
      [] o = "set_timer"            -> "TimerSetNotification"
      [] o = "request_scheduler"    -> "SchedulerRequestedNotification"

\* the class each operation tests its notification against with isinstance
ExpectedVariant(o) ==
    CASE o = "authorize"            -> "AuthorizationNotification"
      [] o = "change_pin"           -> "ChangePinNotification"
      [] o = "reset_pin"            -> "ResetPinNotification"
      [] o = "power_on"             -> "PowerSwitchNotification"
      [] o = "power_off"            -> "PowerSwitchNotification"
      [] o = "led_on"               -> "LEDSwitchNotification"
      [] o = "led_off"              -> "LEDSwitchNotification"
      [] o = "set_date_and_time"    -> "SynchronizeDateAndTimeNotification"
      [] o = "request_settings"     -> "RequestedSettingsNotification"
      [] o = "set_power_limit"      -> "PowerLimitSetNotification"
      [] o = "set_prices"           -> "PricesSetNotification"
      [] o = "set_reduced_period"   -> "ReducedPeriodSetNotification"
      [] o = "request_timer_status" -> "RequestedTimerStatusNotification"
      [] o = "set_timer"            -> "TimerSetNotification"
      [] o = "request_scheduler"    -> "SchedulerRequestedNotification"

\* no operation reads was_successful
ChecksSuccessNever(o) == FALSE

\* every operation that expects a confirmation reads was_successful
ChecksSuccessAlways(o) == ExpectedVariant(o) \in ConfirmationVariants

\* the operations whose test also reads notification.was_successful
ChecksSuccess(o) ==
    o \in {"authorize", "change_pin", "reset_pin", "power_on", "power_off",
           "led_on", "led_off", "set_date_and_time"}

\* failure messages copied from a neighbouring operation
FailureOfCopied(o) ==
    IF o \in {"authorize", "change_pin", "reset_pin"} THEN "Reset PIN failed"
    ELSE IF o \in {"power_on", "power_off"} THEN "Power on failed"
    ELSE IF o \in {"led_on", "led_off"} THEN "LED on failed"
    ELSE "Request settings failed"

\* the message of the Exception each operation raises when its test fails
FailureOf(o) ==
    CASE o = "authorize"            -> "Authentication failed"
      [] o = "change_pin"           -> "Change PIN failed"
      [] o = "reset_pin"            -> "Reset PIN failed"
      [] o = "power_on"             -> "Power on failed"
      [] o = "power_off"            -> "Power off failed"
      [] o = "led_on"               -> "LED on failed"
      [] o = "led_off"              -> "LED off failed"
      [] o = "set_date_and_time"    -> "Set date and time failed"
      [] o = "request_settings"     -> "Request settings failed"
      [] o = "set_power_limit"      -> "Set power limit failed"
      [] o = "set_prices"           -> "Set prices failed"
      [] o = "set_reduced_period"   -> "Set reduced period failed"
      [] o = "request_timer_status" -> "Request timer status failed"
      [] o = "set_timer"            -> "Set timer failed"
      [] o = "request_scheduler"    -> "Request scheduler 1st page failed"

\* the message consume_notification raises when the buffer is not complete
IncompleteFrame == "Incomplete notification data"

\* a test without the isinstance check
AcceptsAnyVariant(o, n) ==
    ~ChecksSuccess(o) \/ n.was_successful

\* the tests with the isinstance test of request_scheduler left out
AcceptsEveryPage(o, n) ==
    \/ o = "request_scheduler"
    \/ /\ n.variant = ExpectedVariant(o)
       /\ (ChecksSuccess(o) => n.was_successful)

\* the test every operation applies to the consumed notification:
\* isinstance(notification, X) [and notification.was_successful]
Accepts(o, n) ==
    /\ n.variant = ExpectedVariant(o)
    /\ (ChecksSuccess(o) => n.was_successful)

----------------------------------------------------------------------------
(* Codec boundary (parser.py, encoder.py: outside the sources).  A frame is *)
(* a class code, the payload and the sentinel; parse decodes exactly one    *)
(* such frame and fails on anything else.                                   *)

\* the device hands out four scheduler entries per page
PageSize == 4

VariantCode(v) == CHOOSE i \in 1..Len(Variants) : Variants[i] = v

\* the frame the device sends for a notification
FrameOf(n) ==
    IF n.variant = "SchedulerRequestedNotification"
    THEN <<VariantCode(n.variant), n.number_of_schedulers>>
            \o n.scheduler_entries \o Sentinel
    ELSE <<VariantCode(n.variant), IF n.was_successful THEN 1 ELSE 0>> \o Sentinel

ParseError == [ok |-> FALSE, notification |-> None]
Parsed(n) == [ok |-> TRUE, notification |-> n]

\* MessageParser.parse(data): the notification, or a failure
parse(data) ==
    LET len == Len(data)
    IN  IF \/ len < 4
           \/ SubSeq(data, len - 1, len) # Sentinel
           \/ data[1] \notin 1..Len(Variants)
        THEN ParseError
        ELSE LET v == Variants[data[1]]
                 body == SubSeq(data, 3, len - 2)
             IN  IF v = "SchedulerRequestedNotification"
                 THEN IF /\ data[2] # FF
                         /\ Len(body) <= PageSize
                         /\ \A i \in 1..Len(body) : body[i] # FF
                      THEN Parsed(SchedulerRequestedNotification(data[2], body))
                      ELSE ParseError
                 ELSE IF v \in ConfirmationVariants
                 THEN IF len = 4 /\ data[2] \in {0, 1}
                      THEN Parsed(Confirmation(v, data[2] = 1))
                      ELSE ParseError
                 ELSE IF len = 4 /\ data[2] = 0
                      THEN Parsed(DataBearing(v))
                      ELSE ParseError

\* the failure of the parser, as the caller sees it
DecodeError == "DecodeError"

\* the failure of the encoder, as the caller sees it
EncodeError == "EncodeError"

\* the operations whose command carries caller-supplied fields the encoder can reject
OpsWithFields == {"authorize", "change_pin", "set_date_and_time", "set_power_limit",
                  "set_prices", "set_reduced_period", "set_timer"}

----------------------------------------------------------------------------
(* Outcomes *)

NoResult == [kind |-> "none", value |-> None, error |-> ""]

\* no Scheduler has been constructed
NoScheduler == [kind |-> "none", repeat_on_weekdays |-> <<>>, error |-> ""]
Returned(n) == [kind |-> "returned", value |-> n, error |-> ""]
Raised(e) == [kind |-> "raised", value |-> None, error |-> e]

NotParsed == [called |-> FALSE, data |-> <<>>]

\* no consume_notification has been called for the current command
NothingHanded == [called |-> FALSE, data |-> <<>>, fresh |-> <<>>]
HandedToParser(data) == [called |-> TRUE, data |-> data]

\* a consume_notification that parses the buffer without the completeness test
consume_without_test(raw) ==
    LET data == Concat(raw)
    IN  IF ~parse(data).ok
        THEN [raw |-> raw, parsed |-> HandedToParser(data),
              raised |-> TRUE, error |-> DecodeError, notification |-> None]
        ELSE [raw |-> <<>>, parsed |-> HandedToParser(data),
              raised |-> FALSE, error |-> "", notification |-> parse(data).notification]

\* a consume_notification that pops the fragments before it calls the parser
consume_clearing_before_parse(raw) ==
    LET data == Concat(raw)
    IN  IF ~(/\ raw # <<>>
             /\ Len(raw[Len(raw)]) >= 2
             /\ SubSeq(raw[Len(raw)], Len(raw[Len(raw)]) - 1, Len(raw[Len(raw)])) = <<FF, FF>>)
        THEN [raw |-> raw, parsed |-> NotParsed,
              raised |-> TRUE, error |-> IncompleteFrame, notification |-> None]
        ELSE IF ~parse(data).ok
        THEN [raw |-> <<>>, parsed |-> HandedToParser(data),
              raised |-> TRUE, error |-> DecodeError, notification |-> None]
        ELSE [raw |-> <<>>, parsed |-> HandedToParser(data),
              raised |-> FALSE, error |-> "", notification |-> parse(data).notification]

\* a consume_notification without the loop that pops the fragments
consume_without_clearing(raw) ==
    LET data == Concat(raw)
    IN  IF ~(/\ raw # <<>>
             /\ Len(raw[Len(raw)]) >= 2
             /\ SubSeq(raw[Len(raw)], Len(raw[Len(raw)]) - 1, Len(raw[Len(raw)])) = <<FF, FF>>)
        THEN [raw |-> raw, parsed |-> NotParsed,
              raised |-> TRUE, error |-> IncompleteFrame, notification |-> None]
        ELSE IF ~parse(data).ok
        THEN [raw |-> raw, parsed |-> HandedToParser(data),
              raised |-> TRUE, error |-> DecodeError, notification |-> None]
        ELSE [raw |-> raw, parsed |-> HandedToParser(data),
              raised |-> FALSE, error |-> "", notification |-> parse(data).notification]

\* SEM6000Delegate.consume_notification: the buffer it leaves, what it handed to
\* the parser, and the notification it returns or the failure it raises
consume_notification(raw) ==
    LET data == Concat(raw)
    IN  IF ~has_final_raw_notification(raw)
        THEN [raw |-> raw, parsed |-> NotParsed,
              raised |-> TRUE, error |-> IncompleteFrame, notification |-> None]
        ELSE IF ~parse(data).ok
        THEN [raw |-> raw, parsed |-> HandedToParser(data),
              raised |-> TRUE, error |-> DecodeError, notification |-> None]
        ELSE [raw |-> <<>>, parsed |-> HandedToParser(data),
              raised |-> FALSE, error |-> "", notification |-> parse(data).notification]

----------------------------------------------------------------------------
(* The device and the transport: what can arrive while an operation waits *)

\* the number_of_schedulers the device reports: the multiples of the page size up
\* to MaxPages pages, and one value that is no multiple
Counts == {p * PageSize : p \in 0..MaxPages} \cup {PageSize - 1}

\* the entries of a scheduler page the device sends (entries by slot_id): none
\* when it holds no scheduler, else the entry of slot 1
PageEntries(c) == IF c = 0 THEN <<>> ELSE <<1>>

\* a notification class other than the one the operation expects
OtherVariant(o) ==
    IF ExpectedVariant(o) = "PowerSwitchNotification"
    THEN "LEDSwitchNotification"
    ELSE "PowerSwitchNotification"

NotificationsOf(v) ==
    IF v = "SchedulerRequestedNotification"
    THEN {SchedulerRequestedNotification(c, PageEntries(c)) : c \in Counts}
    ELSE IF v \in ConfirmationVariants
    THEN {Confirmation(v, ok) : ok \in BOOLEAN}
    ELSE {DataBearing(v)}

\* a frame no notification class has the code of
Malformed == <<0, 0>> \o Sentinel

\* the frames of the class the operation expects
ExpectedFrames(o) == {FrameOf(n) : n \in NotificationsOf(ExpectedVariant(o))}

\* the other frames the device answers with: a confirmation of another class, and
\* a frame the parser rejects
OtherFrames(o) == {FrameOf(Confirmation(OtherVariant(o), TRUE)), Malformed}

\* the fragments a frame is delivered in: the frame itself, or the part before
\* the sentinel and the sentinel
Pieces(f) == {f, SubSeq(f, 1, Len(f) - 2), Sentinel}

\* what the transport can deliver while an operation waits
Fragments(o) == UNION {Pieces(f) : f \in ExpectedFrames(o)} \cup OtherFrames(o)

----------------------------------------------------------------------------
(* The session: SEM6000 and its delegate *)

Init ==
    /\ raw_notifications = <<>>
    /\ pc = "ready"
    /\ op = "none"
    /\ page_number = 0
    /\ notification = None
    /\ written = <<>>
    /\ mark = 0
    /\ delivered = <<>>
    /\ timedOut = FALSE
    /\ parsed = NothingHanded
    /\ pages = <<>>
    /\ result = NoResult
    /\ prevFailed = FALSE
    /\ calls = 0
    /\ split = <<>>
    /\ pending = <<>>
    /\ pin \in Pins
    /\ cmd = "none"
    /\ is_active = "none"
    /\ start_isotime = <<>>
    /\ end_isotime = <<>>
    /\ weekdays_passed = <<>>
    /\ elapsed = 0
    /\ repeat_on_weekdays = <<>>
    /\ scheduler = NoScheduler

\* a driver that remembers the outcome of authorize and refuses every other
\* operation locally unless the call before it was an authorize that returned
CallIfAuthorized(o) ==
    /\ pc = "ready"
    /\ calls < MaxCalls
    /\ calls' = calls + 1
    /\ op' = o
    /\ page_number' = 0
    /\ notification' = None
    /\ mark' = Len(raw_notifications)
    /\ delivered' = <<>>
    /\ timedOut' = FALSE
    /\ parsed' = NothingHanded
    /\ pages' = <<>>
    /\ prevFailed' = (result.kind = "raised")
    /\ IF o = "authorize" \/ (op = "authorize" /\ result.kind = "returned")
       THEN /\ written' = <<CommandOf(o, 0)>>
            /\ result' = NoResult
            /\ pc' = "wait"
       ELSE /\ written' = <<>>
            /\ result' = Raised("Not authorized")
            /\ pc' = "ready"
    /\ UNCHANGED <<raw_notifications, split, pending,
                   arguments, standalone>>

\* a public operation is called: it builds its command and _send_command encodes
\* it, writes it to the characteristic and enters _wait_for_notifications
Call(o) ==
    /\ pc = "ready"
    /\ calls < MaxCalls
    /\ calls' = calls + 1
    /\ op' = o
    /\ page_number' = 0
    /\ notification' = None
    /\ written' = <<CommandOf(o, 0)>>
    /\ mark' = Len(raw_notifications)
    /\ delivered' = <<>>
    /\ timedOut' = FALSE
    /\ parsed' = NothingHanded
    /\ pages' = <<>>
    /\ prevFailed' = (result.kind = "raised")
    /\ result' = NoResult
    /\ pc' = "wait"
    /\ UNCHANGED <<raw_notifications, split, pending,
                   arguments, standalone>>

\* a _send_command that finds out that the encoder rejects the command only
\* after it has written to the characteristic
CallEncodeFailsAfterWrite(o) ==
    /\ pc = "ready"
    /\ calls < MaxCalls
    /\ calls' = calls + 1
    /\ o \in OpsWithFields
    /\ op' = o
    /\ page_number' = 0
    /\ notification' = None
    /\ written' = <<CommandOf(o, 0)>>
    /\ mark' = Len(raw_notifications)
    /\ delivered' = <<>>
    /\ timedOut' = FALSE
    /\ parsed' = NothingHanded
    /\ pages' = <<>>
    /\ prevFailed' = (result.kind = "raised")
    /\ result' = Raised(EncodeError)
    /\ pc' = "ready"
    /\ UNCHANGED <<raw_notifications, split, pending,
                   arguments, standalone>>

\* a public operation is called with fields the encoder rejects: encode raises
\* before anything is written
CallEncodeFails(o) ==
    /\ pc = "ready"
    /\ calls < MaxCalls
    /\ calls' = calls + 1
    /\ o \in OpsWithFields
    /\ op' = o
    /\ page_number' = 0
    /\ notification' = None
    /\ written' = <<>>
    /\ mark' = Len(raw_notifications)
    /\ delivered' = <<>>
    /\ timedOut' = FALSE
    /\ parsed' = NothingHanded
    /\ pages' = <<>>
    /\ prevFailed' = (result.kind = "raised")
    /\ result' = Raised(EncodeError)
    /\ pc' = "ready"
    /\ UNCHANGED <<raw_notifications, split, pending,
                   arguments, standalone>>

\* SEM6000Delegate.handleNotification
handleNotification(raw, data) == Append(raw, data)

\* the record of a consume_notification call: what it handed to the parser, next
\* to the bytes delivered since the command it answers was written
Handed(c) ==
    [called |-> c.parsed.called, data |-> c.parsed.data, fresh |-> Concat(delivered)]

\* _wait_for_notifications: waitForNotifications returns True after the delegate
\* got one fragment; the loop ends when the buffer is complete
Deliver ==
    /\ pc = "wait"
    /\ Len(raw_notifications) < MaxFrags
    /\ \E data \in Fragments(op) :
          /\ raw_notifications' = handleNotification(raw_notifications, data)
          /\ delivered' = Append(delivered, data)
    /\ pc' = IF has_final_raw_notification(raw_notifications') THEN "consume" ELSE "wait"
    /\ UNCHANGED <<op, page_number, notification, written, mark, timedOut, parsed,
                   pages, result, prevFailed, calls, split, pending,
                   arguments, standalone>>

\* _wait_for_notifications: waitForNotifications returns False, the loop ends
Timeout ==
    /\ pc = "wait"
    /\ timedOut' = TRUE
    /\ pc' = "consume"
    /\ UNCHANGED <<raw_notifications, op, page_number, notification, written, mark,
                   delivered, parsed, pages, result, prevFailed, calls, split, pending,
                   arguments, standalone>>

\* the rest of the operation after _send_command returned: consume_notification,
\* the isinstance / was_successful test, and for request_scheduler the next page
Consume ==
    /\ pc = "consume"
    /\ LET c == consume_notification(raw_notifications)
           n == c.notification
           max_page_number == n.number_of_schedulers \div PageSize
       IN  /\ raw_notifications' = c.raw
           /\ parsed' = Handed(c)
           /\ IF c.raised
              THEN /\ result' = Raised(c.error)
                   /\ pc' = "ready"
                   /\ UNCHANGED <<page_number, notification, written, mark, delivered,
                                   timedOut, pages>>
              ELSE IF op # "request_scheduler"
              THEN /\ result' = IF Accepts(op, n) THEN Returned(n) ELSE Raised(FailureOf(op))
                   /\ pc' = "ready"
                   /\ UNCHANGED <<page_number, notification, written, mark, delivered,
                                   timedOut, pages>>
              ELSE IF page_number = 0
              THEN IF ~Accepts(op, n)
                   THEN /\ result' = Raised(FailureOf(op))
                        /\ pc' = "ready"
                        /\ UNCHANGED <<page_number, notification, written, mark, delivered,
                                       timedOut, pages>>
                   ELSE IF max_page_number >= 1
                   THEN \* first iteration of the loop: the command of page 1 is sent
                        /\ notification' = n
                        /\ pages' = <<n>>
                        /\ page_number' = 1
                        /\ written' = Append(written, CommandOf(op, 1))
                        /\ mark' = Len(c.raw)
                        /\ delivered' = <<>>
                        /\ timedOut' = FALSE
                        /\ pc' = "wait"
                        /\ UNCHANGED result
                   ELSE /\ notification' = n
                        /\ pages' = <<n>>
                        /\ result' = Returned(n)
                        /\ pc' = "ready"
                        /\ UNCHANGED <<page_number, written, mark, delivered, timedOut>>
              ELSE IF ~Accepts(op, n)
                   THEN /\ result' = Raised("Request scheduler 2nd page failed")
                        /\ pc' = "ready"
                        /\ UNCHANGED <<page_number, notification, written, mark, delivered,
                                       timedOut, pages>>
                   ELSE \* notification.schedulers: the class sets scheduler_entries only
                        /\ pages' = Append(pages, n)
                        /\ result' = Raised("AttributeError")
                        /\ pc' = "ready"
                        /\ UNCHANGED <<page_number, notification, written, mark, delivered,
                                       timedOut>>
    /\ UNCHANGED <<op, prevFailed, calls, split, pending,
                   arguments, standalone>>

Next ==
    \/ \E o \in Ops : Call(o)
    \/ \E o \in Ops : CallEncodeFails(o)
    \/ Deliver
    \/ Timeout
    \/ Consume

Spec == Init /\ [][Next]_vars

----------------------------------------------------------------------------
(* The delegate alone: one frame pushed in fragments, then consumed *)

\* the bytes of the frames whose splits are pushed
FrameBytes == {0, 1, FF}

\* the byte sequences of length n over FrameBytes
RECURSIVE BytesOfLen(_)
BytesOfLen(n) ==
    IF n = 0 THEN {<<>>}
    ELSE {Append(b, x) : b \in BytesOfLen(n - 1), x \in FrameBytes}

\* the frames of at most MaxLen bytes whose last two bytes are the sentinel
Frames == UNION {{b \o Sentinel : b \in BytesOfLen(n)} : n \in 0..(MaxLen - 2)}

\* the ways to cut a byte sequence into non-empty fragments
RECURSIVE Splits(_)
Splits(f) ==
    IF Len(f) = 0 THEN {<<>>}
    ELSE UNION {{<<SubSeq(f, 1, k)>> \o rest : rest \in Splits(SubSeq(f, k + 1, Len(f)))} :
                    k \in 1..Len(f)}

InitReassembly ==
    /\ raw_notifications = <<>>
    /\ pc = "push"
    /\ op = "none"
    /\ page_number = 0
    /\ notification = None
    /\ written = <<>>
    /\ mark = 0
    /\ delivered = <<>>
    /\ timedOut = FALSE
    /\ parsed = NothingHanded
    /\ pages = <<>>
    /\ result = NoResult
    /\ prevFailed = FALSE
    /\ calls = 0
    /\ split \in UNION {Splits(f) : f \in Frames}
    /\ pending = split
    /\ pin = DefaultPin
    /\ cmd = "none"
    /\ is_active = "none"
    /\ start_isotime = <<>>
    /\ end_isotime = <<>>
    /\ weekdays_passed = <<>>
    /\ elapsed = 0
    /\ repeat_on_weekdays = <<>>
    /\ scheduler = NoScheduler

\* the transport pushes the next fragment: handleNotification
Push ==
    /\ pc = "push"
    /\ pending # <<>>
    /\ raw_notifications' = handleNotification(raw_notifications, Head(pending))
    /\ pending' = Tail(pending)
    /\ UNCHANGED <<pc, op, page_number, notification, written, mark, delivered,
                   timedOut, parsed, pages, result, prevFailed, calls, split,
                   arguments, standalone>>

\* consume_notification is called on the fragments pushed so far
Take ==
    /\ pc = "push"
    /\ LET c == consume_notification(raw_notifications)
       IN  /\ raw_notifications' = c.raw
           /\ parsed' = Handed(c)
           /\ result' = IF c.raised THEN Raised(c.error) ELSE Returned(c.notification)
    /\ pc' = "taken"
    /\ UNCHANGED <<op, page_number, notification, written, mark, delivered,
                   timedOut, pages, prevFailed, calls, split, pending,
                   arguments, standalone>>

NextReassembly == Push \/ Take

SpecReassembly == InitReassembly /\ [][NextReassembly]_vars

----------------------------------------------------------------------------
(* _wait_for_notifications alone, with the time every wait takes *)

\* SEM6000.__init__: self.timeout = 10
timeout == 10

\* the seconds after which a fragment can arrive while waitForNotifications(timeout) blocks
Delays == 1..(timeout - 1)

\* authorize has written its command and enters _wait_for_notifications
InitWait ==
    /\ raw_notifications = <<>>
    /\ pc = "wait"
    /\ op = "authorize"
    /\ page_number = 0
    /\ notification = None
    /\ pin = DefaultPin
    /\ written = <<CommandOf("authorize", 0)>>
    /\ mark = 0
    /\ delivered = <<>>
    /\ timedOut = FALSE
    /\ parsed = NothingHanded
    /\ pages = <<>>
    /\ result = NoResult
    /\ prevFailed = FALSE
    /\ calls = 1
    /\ split = <<>>
    /\ pending = <<>>
    /\ cmd = "none"
    /\ is_active = "none"
    /\ start_isotime = <<>>
    /\ end_isotime = <<>>
    /\ weekdays_passed = <<>>
    /\ elapsed = 0
    /\ repeat_on_weekdays = <<>>
    /\ scheduler = NoScheduler

\* waitForNotifications(self.timeout) returns True: a fragment arrived before the
\* timeout and the delegate took it; the loop ends when the buffer is complete
Arrive ==
    /\ pc = "wait"
    /\ Len(raw_notifications) < MaxFrags
    /\ \E d \in Delays, data \in Fragments(op) :
          /\ elapsed' = elapsed + d
          /\ raw_notifications' = handleNotification(raw_notifications, data)
          /\ delivered' = Append(delivered, data)
    /\ pc' = IF has_final_raw_notification(raw_notifications') THEN "consume" ELSE "wait"
    /\ UNCHANGED <<op, page_number, notification, written, mark, timedOut, parsed,
                   pages, result, prevFailed, calls, split, pending,
                   arguments, repeat_on_weekdays, scheduler>>

\* waitForNotifications(self.timeout) returns False after self.timeout seconds
\* without a fragment: the loop ends
Expire ==
    /\ pc = "wait"
    /\ elapsed' = elapsed + timeout
    /\ timedOut' = TRUE
    /\ pc' = "consume"
    /\ UNCHANGED <<raw_notifications, op, page_number, notification, written, mark,
                   delivered, parsed, pages, result, prevFailed, calls, split, pending,
                   arguments, repeat_on_weekdays, scheduler>>

NextWait == Arrive \/ Expire

SpecWait == InitWait /\ [][NextWait]_vars

----------------------------------------------------------------------------
(* The command-line caller: the script at the end of sem6000.py *)

\* the values of sys.argv[3] the script compares cmd with, and one it has no
\* branch for
Cmds == (Ops \ {"authorize"})
            \cup {"synchronize_date_and_time", "reset_timer", "authorize"}

\* a script that authorizes for no command
NeedsAuthorizeNever(c) == FALSE

\* if cmd != 'reset_pin': sem6000.authorize()
NeedsAuthorize(c) == c # "reset_pin"

\* the operation the script calls for cmd: if cmd == '...': sem6000. ...
OperationOf(c) ==
    CASE c = "synchronize_date_and_time" -> "set_date_and_time"
      [] c = "reset_timer"               -> "set_timer"
      [] c \in Ops \ {"authorize"}       -> c
      [] OTHER                           -> "none"

\* sem6000 = SEM6000(deviceAddr, pin, debug=True) with cmd = sys.argv[3]
InitMain ==
    /\ raw_notifications = <<>>
    /\ pc = "ready"
    /\ op = "none"
    /\ page_number = 0
    /\ notification = None
    /\ written = <<>>
    /\ mark = 0
    /\ delivered = <<>>
    /\ timedOut = FALSE
    /\ parsed = NothingHanded
    /\ pages = <<>>
    /\ result = NoResult
    /\ prevFailed = FALSE
    /\ calls = 0
    /\ split = <<>>
    /\ pending = <<>>
    /\ pin \in Pins
    /\ cmd \in Cmds
    /\ is_active = "none"
    /\ start_isotime = <<>>
    /\ end_isotime = <<>>
    /\ weekdays_passed = <<>>
    /\ elapsed = 0
    /\ repeat_on_weekdays = <<>>
    /\ scheduler = NoScheduler

\* if cmd != 'reset_pin': sem6000.authorize()
main_authorize ==
    /\ calls = 0
    /\ NeedsAuthorize(cmd)
    /\ (Call("authorize") \/ CallEncodeFails("authorize"))

\* the branch of cmd; the script reaches it when authorize was not called or
\* has returned (an exception of authorize ends the script)
main_command ==
    /\ OperationOf(cmd) # "none"
    /\ IF NeedsAuthorize(cmd)
       THEN calls = 1 /\ op = "authorize" /\ result.kind = "returned"
       ELSE calls = 0
    /\ (Call(OperationOf(cmd)) \/ CallEncodeFails(OperationOf(cmd)))

NextMain ==
    \/ main_authorize
    \/ main_command
    \/ Deliver
    \/ Timeout
    \/ Consume

SpecMain == InitMain /\ [][NextMain]_vars

----------------------------------------------------------------------------
(* The delegate alone: any fragments pushed, then consumed *)

\* the byte sequences of at most MaxLen bytes
ByteStrings == UNION {BytesOfLen(n) : n \in 0..MaxLen}

\* a new delegate and the fragments the transport is going to push: every way to
\* cut every byte sequence into fragments
InitFragments ==
    /\ raw_notifications = <<>>
    /\ pc = "push"
    /\ op = "none"
    /\ page_number = 0
    /\ notification = None
    /\ written = <<>>
    /\ mark = 0
    /\ delivered = <<>>
    /\ timedOut = FALSE
    /\ parsed = NothingHanded
    /\ pages = <<>>
    /\ result = NoResult
    /\ prevFailed = FALSE
    /\ calls = 0
    /\ split \in UNION {Splits(b) : b \in ByteStrings}
    /\ pending = split
    /\ pin = DefaultPin
    /\ cmd = "none"
    /\ is_active = "none"
    /\ start_isotime = <<>>
    /\ end_isotime = <<>>
    /\ weekdays_passed = <<>>
    /\ elapsed = 0
    /\ repeat_on_weekdays = <<>>
    /\ scheduler = NoScheduler

SpecFragments == InitFragments /\ [][NextReassembly]_vars

----------------------------------------------------------------------------
(* Scheduler.__init__ (message.py) *)

\* longest list passed as repeat_on_weekdays
MaxWeekdays == 2
\* largest integer in such a list
MaxWeekdayValue == 9

\* the names of the members of SchedulerWeekday, in the order of their values 0..6
WeekdayNames == <<"SUNDAY", "MONDAY", "TUESDAY", "WEDNESDAY", "THURSDAY",
                  "FRIDAY", "SATURDAY">>

\* a Python int
IntObject(i) == [type |-> "int", value |-> i, name |-> ""]

\* the member of SchedulerWeekday with the value v
Weekday(v) == [type |-> "SchedulerWeekday", value |-> v, name |-> WeekdayNames[v + 1]]

\* an object that is neither an int nor a SchedulerWeekday
OtherObject == [type |-> "str", value |-> 0, name |-> ""]

\* a lookup that wraps the value around instead of refusing it
SchedulerWeekdayWrapping(value) == [raised |-> FALSE, member |-> Weekday(value % 7)]

\* SchedulerWeekday(value): the member with that value; ValueError when there is none
SchedulerWeekday(value) ==
    IF value \in 0..6
    THEN [raised |-> FALSE, member |-> Weekday(value)]
    ELSE [raised |-> TRUE, member |-> OtherObject]

\* the failure SchedulerWeekday(value) raises
ValidationError == "ValueError"

\* for i in range(len(repeat_on_weekdays)): ..., from index i on: the list the
\* loop leaves (it assigns in place) and whether SchedulerWeekday raised
RECURSIVE Convert(_, _)
Convert(list, i) ==
    IF i > Len(list) THEN [raised |-> FALSE, list |-> list]
    ELSE IF list[i].type = "int"
    THEN IF SchedulerWeekday(list[i].value).raised
         THEN [raised |-> TRUE, list |-> list]
         ELSE Convert([list EXCEPT ![i] = SchedulerWeekday(list[i].value).member], i + 1)
    ELSE Convert(list, i + 1)

Constructed(list) == [kind |-> "constructed", repeat_on_weekdays |-> list, error |-> ""]
NotConstructed(e) == [kind |-> "raised", repeat_on_weekdays |-> <<>>, error |-> e]

\* Scheduler.__init__: the list as the constructor leaves it, and the object
\* constructed or the failure raised
Scheduler(list) ==
    LET c == Convert(list, 1)
    IN  IF c.raised
        THEN [list |-> c.list, scheduler |-> NotConstructed(ValidationError)]
        ELSE IF \E i \in 1..Len(c.list) : c.list[i].type # "SchedulerWeekday"
        THEN [list |-> c.list, scheduler |-> NotConstructed("AssertionError")]
        ELSE [list |-> c.list, scheduler |-> Constructed(c.list)]

\* what a caller can put into the list
WeekdayObjects ==
    {IntObject(i) : i \in -1..MaxWeekdayValue} \cup {Weekday(v) : v \in 0..6}
        \cup {OtherObject}

\* a caller is about to construct a Scheduler with some list
InitScheduler ==
    /\ raw_notifications = <<>>
    /\ pc = "construct"
    /\ op = "none"
    /\ page_number = 0
    /\ notification = None
    /\ written = <<>>
    /\ mark = 0
    /\ delivered = <<>>
    /\ timedOut = FALSE
    /\ parsed = NothingHanded
    /\ pages = <<>>
    /\ result = NoResult
    /\ prevFailed = FALSE
    /\ calls = 0
    /\ split = <<>>
    /\ pending = <<>>
    /\ pin = DefaultPin
    /\ cmd = "none"
    /\ is_active = "none"
    /\ start_isotime = <<>>
    /\ end_isotime = <<>>
    /\ weekdays_passed \in UNION {[1..n -> WeekdayObjects] : n \in 0..MaxWeekdays}
    /\ elapsed = 0
    /\ repeat_on_weekdays = weekdays_passed
    /\ scheduler = NoScheduler

\* Scheduler(is_active, is_action_turn_on, repeat_on_weekdays, ...)
Construct ==
    /\ pc = "construct"
    /\ repeat_on_weekdays' = Scheduler(repeat_on_weekdays).list
    /\ scheduler' = Scheduler(repeat_on_weekdays).scheduler
    /\ pc' = "constructed"
    /\ UNCHANGED <<raw_notifications, op, page_number, notification, written, mark,
                   delivered, timedOut, parsed, pages, result, prevFailed, calls,
                   split, pending, arguments, elapsed>>

SpecScheduler == InitScheduler /\ [][Construct]_vars

----------------------------------------------------------------------------
(* set_reduced_period with its arguments *)

\* the characters of the decimal digits
DigitChars == <<"0", "1", "2", "3", "4", "5", "6", "7", "8", "9">>

\* the text "HH:MM" of an hour and a minute, character by character
IsoTime(h, m) ==
    <<DigitChars[(h \div 10) + 1], DigitChars[(h % 10) + 1], ":",
      DigitChars[(m \div 10) + 1], DigitChars[(m % 10) + 1]>>

\* the hours and minutes of the texts passed: the ends of the ranges, the times
\* of a usual reduced period, and the first value past each range
SampleHours == {0, 6, 22, 23, 24}
SampleMinutes == {0, 59, 60}

\* the texts passed as start_isotime and end_isotime, one of them no HH:MM text
IsoTimes ==
    {IsoTime(h, m) : h \in SampleHours, m \in SampleMinutes} \cup {<<"6", ":", "0", "0">>}

\* the values passed as is_active (the script passes sys.argv[4]; str() of a
\* Python bool is "True" or "False")
BooleanStrings == {"true", "True", "ON", "1", "false", "False", "yes"}

\* str.lower() on the values passed
lower(s) ==
    CASE s = "True"  -> "true"
      [] s = "ON"    -> "on"
      [] s = "False" -> "false"
      [] OTHER       -> s

\* _parse_boolean
parse_boolean(boolean_string) ==
    \/ lower(boolean_string) = "true"
    \/ lower(boolean_string) = "on"
    \/ lower(boolean_string) = "1"

DigitValue(c) == CHOOSE n \in 0..9 : DigitChars[n + 1] = c

IsDigit(c) == \E n \in 0..9 : DigitChars[n + 1] = c

\* datetime.time.fromisoformat on a text HH:MM: the time, or ValueError
fromisoformat(s) ==
    IF /\ Len(s) = 5
       /\ s[3] = ":"
       /\ \A i \in {1, 2, 4, 5} : IsDigit(s[i])
       /\ 10 * DigitValue(s[1]) + DigitValue(s[2]) <= 23
       /\ 10 * DigitValue(s[4]) + DigitValue(s[5]) <= 59
    THEN [raised |-> FALSE,
          hour   |-> 10 * DigitValue(s[1]) + DigitValue(s[2]),
          minute |-> 10 * DigitValue(s[4]) + DigitValue(s[5])]
    ELSE [raised |-> TRUE, hour |-> 0, minute |-> 0]

\* the hour and the minute read as one decimal number
in_minutes_decimal(time) == time.hour * 100 + time.minute

\* start_time.hour*60 + start_time.minute
in_minutes(time) == time.hour * 60 + time.minute

\* SetReducedPeriodCommand.__init__
SetReducedPeriodCommand(active, start_time_in_minutes, end_time_in_minutes) ==
    [cmd |-> "SetReducedPeriodCommand", on |-> FALSE, page_number |-> 0, pin |-> NoPin,
     is_active |-> active,
     start_time_in_minutes |-> start_time_in_minutes,
     end_time_in_minutes |-> end_time_in_minutes]

\* a new session and the arguments of the call of set_reduced_period to come
InitReducedPeriod ==
    /\ raw_notifications = <<>>
    /\ pc = "ready"
    /\ op = "none"
    /\ page_number = 0
    /\ notification = None
    /\ written = <<>>
    /\ mark = 0
    /\ delivered = <<>>
    /\ timedOut = FALSE
    /\ parsed = NothingHanded
    /\ pages = <<>>
    /\ result = NoResult
    /\ prevFailed = FALSE
    /\ calls = 0
    /\ split = <<>>
    /\ pending = <<>>
    /\ pin = DefaultPin
    /\ cmd = "none"
    /\ is_active \in BooleanStrings
    /\ start_isotime \in IsoTimes
    /\ end_isotime \in IsoTimes
    /\ weekdays_passed = <<>>
    /\ elapsed = 0
    /\ repeat_on_weekdays = <<>>
    /\ scheduler = NoScheduler

\* set_reduced_period(is_active, start_isotime, end_isotime) up to the wait of
\* _send_command: fromisoformat raises, or the command is built and encode
\* raises, or the command is written
set_reduced_period ==
    /\ pc = "ready"
    /\ calls = 0
    /\ calls' = calls + 1
    /\ op' = "set_reduced_period"
    /\ page_number' = 0
    /\ notification' = None
    /\ mark' = Len(raw_notifications)
    /\ delivered' = <<>>
    /\ timedOut' = FALSE
    /\ parsed' = NothingHanded
    /\ pages' = <<>>
    /\ prevFailed' = (result.kind = "raised")
    /\ LET start_time == fromisoformat(start_isotime)
           end_time == fromisoformat(end_isotime)
           command == SetReducedPeriodCommand(parse_boolean(is_active),
                                              in_minutes(start_time),
                                              in_minutes(end_time))
       IN  IF start_time.raised \/ end_time.raised
           THEN /\ written' = <<>>
                /\ result' = Raised("ValueError")
                /\ pc' = "ready"
           ELSE \/ /\ written' = <<command>>
                   /\ result' = NoResult
                   /\ pc' = "wait"
                \/ /\ written' = <<>>
                   /\ result' = Raised(EncodeError)
                   /\ pc' = "ready"
    /\ UNCHANGED <<raw_notifications, split, pending, arguments, standalone>>

NextReducedPeriod ==
    \/ set_reduced_period
    \/ Deliver
    \/ Timeout
    \/ Consume

SpecReducedPeriod == InitReducedPeriod /\ [][NextReducedPeriod]_vars

----------------------------------------------------------------------------
(* Properties *)

\* a public operation has returned control to its caller
Finished == pc = "ready" /\ op \in Ops

\* the notification the parser returned to the last consume_notification
Decoded == parse(parsed.data).notification

\* the last consume_notification got a notification from the parser
DidDecode == parsed.called /\ parse(parsed.data).ok

EndsInSentinel(f) == Len(f) >= 2 /\ SubSeq(f, Len(f) - 1, Len(f)) = Sentinel

\* C1: what consume_notification hands to the parser is exactly the fragments
\* delivered since the command of the exchange was written; no fragment of an
\* earlier exchange is part of it.
C1_OnlyFreshFragmentsParsed ==
    (op \in Ops /\ parsed.called) => parsed.data = parsed.fresh

\* C2 as stated: for every split of a frame ending in the sentinel, the buffer
\* is complete exactly when the last fragment has been pushed, and consuming it
\* then hands the frame to the parser and leaves the buffer empty.
C2_EverySplitReassembles ==
    /\ pc = "push" => (has_final_raw_notification(raw_notifications) <=> pending = <<>>)
    /\ (pc = "taken" /\ pending = <<>>) =>
           /\ parsed.called
           /\ parsed.data = Concat(split)
           /\ raw_notifications = <<>>

\* the splits the completeness test handles: the last fragment holds the whole
\* sentinel and no earlier fragment ends in it
SentinelInLastFragmentOnly(sp) ==
    /\ Len(sp) >= 1
    /\ Len(sp[Len(sp)]) >= 2
    /\ \A i \in 1..(Len(sp) - 1) : ~EndsInSentinel(sp[i])

\* C2 amended: for every split of a frame ending in the sentinel whose last
\* fragment is at least two bytes long and none of whose earlier fragments ends
\* in the sentinel, the buffer is complete exactly when the last fragment has
\* been pushed; consume_notification then hands exactly the frame to the parser
\* and, when the parser accepts the frame, returns its notification and leaves
\* the buffer empty.
C2_Reassembly ==
    (pc \in {"push", "taken"} /\ SentinelInLastFragmentOnly(split)) =>
        /\ pc = "push" => (has_final_raw_notification(raw_notifications) <=> pending = <<>>)
        /\ (pc = "taken" /\ pending = <<>>) =>
               /\ parsed.called
               /\ parsed.data = Concat(split)
               /\ parse(Concat(split)).ok =>
                      /\ raw_notifications = <<>>
                      /\ result = Returned(parse(Concat(split)).notification)

\* a frame the parser accepts was pushed in several fragments and consumed
C2_Witness ==
    /\ pc = "taken"
    /\ pending = <<>>
    /\ Len(split) >= 2
    /\ SentinelInLastFragmentOnly(split)
    /\ parsed.called
    /\ parsed.data = Concat(split)
    /\ result.kind = "returned"
    /\ raw_notifications = <<>>

\* the frames that make an operation return after one exchange
GoodFrames(o) ==
    {FrameOf(n) : n \in {m \in NotificationsOf(ExpectedVariant(o)) :
                            /\ ChecksSuccess(o) => m.was_successful
                            /\ m.number_of_schedulers < PageSize}}

\* C3: after an operation failed, an operation for which the device delivers
\* one well-formed frame of the expected class (successful where that is
\* tested) returns the notification of that frame.
C3_FailedOperationNotFatal ==
    (/\ Finished
     /\ prevFailed
     /\ written # <<>>
     /\ ~timedOut
     /\ Len(delivered) = 1
     /\ delivered[1] \in GoodFrames(op))
    => result = Returned(parse(delivered[1]).notification)

\* every exchange of the last request_scheduler call decoded a scheduler page
AllPagesDecoded ==
    /\ Finished
    /\ op = "request_scheduler"
    /\ Len(written) >= 1
    /\ Len(pages) = Len(written)

\* the entries of the pages, in the order the pages were decoded
RECURSIVE EntriesOf(_)
EntriesOf(ps) ==
    IF Len(ps) = 0 THEN <<>>
    ELSE Head(ps).scheduler_entries \o EntriesOf(Tail(ps))

\* C4: when every page exchange succeeds request_scheduler returns one
\* aggregate: number_of_schedulers of page 0, and the entries of the pages
\* 0 .. number_of_schedulers div 4 in ascending page order.
C4_AggregateReturned ==
    AllPagesDecoded =>
        /\ result.kind = "returned"
        /\ result.value.number_of_schedulers = pages[1].number_of_schedulers
        /\ Len(pages) = (pages[1].number_of_schedulers \div 4) + 1
        /\ result.value.scheduler_entries = EntriesOf(pages)

\* C5: when every page response decodes to a scheduler page, the commands
\* request_scheduler writes are RequestSchedulerCommand for the pages
\* 0 .. number_of_schedulers div 4, ascending, each once.
C5_PageSequence ==
    AllPagesDecoded =>
        written = [i \in 1..((pages[1].number_of_schedulers \div 4) + 1) |->
                       Command("RequestSchedulerCommand", FALSE, i - 1)]

\* the operations C6 names
ConfirmationStyleOps ==
    {"authorize", "change_pin", "reset_pin", "power_on", "power_off",
     "led_on", "led_off", "set_date_and_time"}

\* C6: a confirmation-style operation returns only the decoded notification,
\* and only when it is of the expected class and was_successful; a decoded
\* notification of another class or with was_successful false makes it raise
\* its failure.
C6_ConfirmationChecked ==
    (Finished /\ op \in ConfirmationStyleOps) =>
        /\ result.kind = "returned" =>
               /\ DidDecode
               /\ result.value = Decoded
               /\ Decoded.variant = ExpectedVariant(op)
               /\ Decoded.was_successful
        /\ (DidDecode /\ ~(Decoded.variant = ExpectedVariant(op) /\ Decoded.was_successful))
               => result = Raised(FailureOf(op))

\* a confirmation of the expected class that reports failure made the operation raise
C6_Witness ==
    /\ Finished
    /\ op \in ConfirmationStyleOps
    /\ DidDecode
    /\ Decoded.variant = ExpectedVariant(op)
    /\ ~Decoded.was_successful
    /\ result.kind = "raised"

\* the failure an operation raises when its isinstance test fails
UnexpectedNotification(o) == FailureOf(o)

\* authorize decoded an AuthorizationNotification that reports failure
AuthorizeRefused ==
    /\ Finished
    /\ op = "authorize"
    /\ DidDecode
    /\ Decoded.variant = "AuthorizationNotification"
    /\ ~Decoded.was_successful

C8_VariantMismatch ==
    \A o \in {"request_settings", "request_timer_status"} :
        (Finished /\ op = o) =>
            LET expected == IF o = "request_settings"
                            THEN "RequestedSettingsNotification"
                            ELSE "RequestedTimerStatusNotification"
            IN  /\ result.kind = "returned" =>
                       (DidDecode /\ result.value = Decoded /\ Decoded.variant = expected)
                /\ (DidDecode /\ Decoded.variant = expected) => result = Returned(Decoded)
                /\ (DidDecode /\ Decoded.variant # expected) => result = Raised(FailureOf(o))

\* request_settings decoded a power-switch confirmation and raised
C8_Witness ==
    /\ Finished
    /\ op = "request_settings"
    /\ DidDecode
    /\ Decoded.variant = "PowerSwitchNotification"
    /\ result = Raised("Request settings failed")

\* the operations C9 names
VariantOnlyOps == {"set_power_limit", "set_prices", "set_reduced_period", "set_timer"}

\* C9: set_power_limit, set_prices, set_reduced_period and set_timer return
\* every decoded notification of their expected class, whatever its
\* was_successful, and raise for a decoded notification only when its class
\* differs.
C9_VariantOnly ==
    (Finished /\ op \in VariantOnlyOps /\ DidDecode) =>
        /\ Decoded.variant = ExpectedVariant(op) => result = Returned(Decoded)
        /\ Decoded.variant # ExpectedVariant(op) => result = Raised(FailureOf(op))

\* a confirmation that reports failure was returned to the caller
C9_Witness ==
    /\ Finished
    /\ op \in VariantOnlyOps
    /\ DidDecode
    /\ ~Decoded.was_successful
    /\ result = Returned(Decoded)

\* C10: when the wait of a send ended by the timeout, the operation raises
\* "Incomplete notification data" and the parser is not invoked.
C10_TimeoutIsIncomplete ==
    (Finished /\ timedOut) =>
        /\ result = Raised(IncompleteFrame)
        /\ ~parsed.called

\* a command has just been written and no fragment has arrived since
JustWritten == pc = "wait" /\ delivered = <<>> /\ ~timedOut

\* C11: whenever a command is written to the transport, the fragment buffer
\* holds no incomplete frame: no fragments an earlier exchange left behind
\* without completing them, also after exchanges that ended by timeout.
C11_NoIncompleteFrameAtWrite ==
    JustWritten =>
        \/ raw_notifications = <<>>
        \/ EndsInSentinel(Concat(raw_notifications))

\* C12: the wait of a send is bounded by the timeout: once timeout seconds
\* have been spent waiting the send has returned control, it is not waiting
\* for a further fragment; this also when the device keeps delivering
\* fragments, each within the timeout, none of which ends in the sentinel.
C12_WaitBoundedByTimeout ==
    pc = "wait" => elapsed < timeout

\* the commands the current call has written: one for an operation other than
\* request_scheduler, and for request_scheduler those of the pages 0, 1, ..
\* in this order, none of them twice
WrittenOnce ==
    op \in Ops =>
        /\ op # "request_scheduler" => Len(written) <= 1
        /\ \A i \in 1..Len(written) : written[i].page_number = i - 1
        /\ \A i, j \in 1..Len(written) : written[i] = written[j] => i = j

\* C13: within one call of a public operation every command is written once
\* (request_scheduler: once per page, and a further page only after the page
\* before it decoded to a scheduler page); a call that raises after a timeout,
\* a parse failure or a validation failure returns to the caller without
\* having written any command again.
C13_NoRetry ==
    [][/\ WrittenOnce'
       /\ (written' # written /\ calls' = calls) =>
              /\ op = "request_scheduler"
              /\ Len(written') = Len(written) + 1
              /\ parsed'.called
              /\ parse(parsed'.data).ok
              /\ parse(parsed'.data).notification.variant = "SchedulerRequestedNotification"
       /\ (pc = "consume" /\ result'.kind = "raised") =>
              /\ written' = written
              /\ pc' = "ready"]_vars

\* request_scheduler timed out on its second page and raised, two commands written
C13_Witness ==
    /\ Finished
    /\ op = "request_scheduler"
    /\ Len(written) = 2
    /\ timedOut
    /\ result = Raised(IncompleteFrame)

\* C14: the script writes, for every command other than reset_pin, the
\* authorize command first, and a command other than authorize only after
\* authorize has returned its notification (never after authorize raised); for
\* reset_pin it writes the reset-pin command and no authorize command.
C14_AuthorizeFirst ==
    [][(written' # written /\ written' # <<>>) =>
          LET c == written'[Len(written')]
          IN  IF cmd = "reset_pin"
              THEN c.cmd = "ResetPinCommand"
              ELSE /\ calls = 0 => c.cmd = "AuthorizeCommand"
                   /\ c.cmd # "AuthorizeCommand" =>
                          \/ /\ calls = 1
                             /\ pc = "ready"
                             /\ op = "authorize"
                             /\ result.kind = "returned"
                             /\ result.value.variant = "AuthorizationNotification"
                             /\ result.value.was_successful
                          \/ /\ calls' = calls
                             /\ op = "request_scheduler"
                             /\ Len(written) >= 1]_vars

\* power_on was called after authorize had returned
C14_Witness ==
    /\ cmd = "power_on"
    /\ calls = 2
    /\ op = "power_on"
    /\ written = <<Command("PowerSwitchCommand", TRUE, 0)>>
    /\ ~prevFailed

\* the fragments pushed so far, in the order they were pushed
Pushed == SubSeq(split, 1, Len(split) - Len(pending))

\* at least one fragment was pushed and the last one pushed is at least two
\* bytes long and ends in the sentinel
LastPushedEndsInSentinel ==
    /\ Len(Pushed) >= 1
    /\ EndsInSentinel(Pushed[Len(Pushed)])

\* C15: has_final_raw_notification is true if and only if at least one
\* fragment is buffered and the fragment pushed last is at least two bytes long
\* and ends in 0xFF 0xFF, whatever the earlier fragments contain; so
\* consume_notification refuses the buffer as incomplete if and only if this
\* is not the case (empty buffer, or a last fragment shorter than two bytes or
\* not ending in the sentinel).
C15_CompletenessTest ==
    /\ pc = "push" =>
           (has_final_raw_notification(raw_notifications) <=> LastPushedEndsInSentinel)
    /\ pc = "taken" =>
           /\ parsed.called <=> LastPushedEndsInSentinel
           /\ result = Raised(IncompleteFrame) <=> ~LastPushedEndsInSentinel

\* a one-byte last fragment after a fragment ending in 0xFF: the bytes pushed
\* end in the sentinel, the buffer is refused as incomplete
C15_Witness ==
    /\ pc = "taken"
    /\ Len(Pushed) >= 2
    /\ Len(Pushed[Len(Pushed)]) = 1
    /\ EndsInSentinel(Concat(Pushed))
    /\ result = Raised(IncompleteFrame)

\* no fragment pushed so far ends in the sentinel
NoFragmentEndsInSentinel == \A i \in 1..Len(Pushed) : ~EndsInSentinel(Pushed[i])

\* C16: as long as no pushed fragment ends in 0xFF 0xFF the completeness test
\* is false after every push, and consume_notification called then raises
\* "Incomplete notification data", hands nothing to the parser and keeps the
\* buffer.
C16_NonCompletion ==
    NoFragmentEndsInSentinel =>
        /\ pc = "push" => ~has_final_raw_notification(raw_notifications)
        /\ pc = "taken" =>
               /\ result = Raised(IncompleteFrame)
               /\ ~parsed.called
               /\ raw_notifications = Pushed

\* three fragments, none ending in the sentinel, were pushed and consumed
C16_Witness ==
    /\ pc = "taken"
    /\ Len(Pushed) = 3
    /\ NoFragmentEndsInSentinel
    /\ Concat(Pushed) # <<>>
    /\ result = Raised(IncompleteFrame)
    /\ ~parsed.called

\* the seven canonical weekday values, SUNDAY = 0 .. SATURDAY = 6
CanonicalWeekdays ==
    {[type |-> "SchedulerWeekday", value |-> 0, name |-> "SUNDAY"],
     [type |-> "SchedulerWeekday", value |-> 1, name |-> "MONDAY"],
     [type |-> "SchedulerWeekday", value |-> 2, name |-> "TUESDAY"],
     [type |-> "SchedulerWeekday", value |-> 3, name |-> "WEDNESDAY"],
     [type |-> "SchedulerWeekday", value |-> 4, name |-> "THURSDAY"],
     [type |-> "SchedulerWeekday", value |-> 5, name |-> "FRIDAY"],
     [type |-> "SchedulerWeekday", value |-> 6, name |-> "SATURDAY"]}

\* the canonical weekday an object of the list stands for
CanonicalOf(x) == CHOOSE w \in CanonicalWeekdays : w.value = x.value

IsInt(x) == x.type = "int"

\* C17: constructing a Scheduler whose repeat_on_weekdays holds an integer
\* outside 0..6 fails with the validation failure and produces no Scheduler; a
\* list of integers 0..6 (and weekdays) is accepted and every integer in it is
\* replaced by the weekday of that value, SUNDAY = 0 .. SATURDAY = 6; after a
\* successful construction repeat_on_weekdays holds canonical weekdays only.
C17_WeekdayValidation ==
    pc = "constructed" =>
        LET n == Len(weekdays_passed)
        IN  /\ (\E i \in 1..n : IsInt(weekdays_passed[i])
                                    /\ weekdays_passed[i].value \notin 0..6)
                   => scheduler = NotConstructed(ValidationError)
            /\ (\A i \in 1..n : \/ weekdays_passed[i] \in CanonicalWeekdays
                                \/ /\ IsInt(weekdays_passed[i])
                                   /\ weekdays_passed[i].value \in 0..6)
                   => /\ scheduler.kind = "constructed"
                      /\ Len(scheduler.repeat_on_weekdays) = n
                      /\ \A i \in 1..n : scheduler.repeat_on_weekdays[i]
                                             = CanonicalOf(weekdays_passed[i])
            /\ scheduler.kind = "constructed"
                   => \A i \in 1..Len(scheduler.repeat_on_weekdays) :
                          scheduler.repeat_on_weekdays[i] \in CanonicalWeekdays

\* the list [0, 9] was refused
C17_Witness ==
    /\ pc = "constructed"
    /\ weekdays_passed = <<IntObject(0), IntObject(9)>>
    /\ scheduler = NotConstructed(ValidationError)

\* the command set_reduced_period has written
SentCommand == written[1]

\* the valid times of the day as texts HH:MM
ValidIsoTimes == {IsoTime(h, m) : h \in 0..23, m \in 0..59}

\* the minutes of the day 60*HH+MM of every valid text HH:MM
MinutesOfDay ==
    [s \in ValidIsoTimes |->
        CHOOSE n \in 0..1439 : s = IsoTime(n \div 60, n % 60)]

\* C18: set_reduced_period sends the start and the end time HH:MM as the
\* minutes of the day 60*HH+MM, a value in 0..1439 for every valid time; the
\* call (true, 06:00, 22:00) sends SetReducedPeriodCommand(is_active=true,
\* start_time_in_minutes=360, end_time_in_minutes=1320); a decoded
\* ReducedPeriodSetNotification with was_successful=true is the result returned.
C18_ReducedPeriod ==
    op = "set_reduced_period" =>
        /\ (start_isotime \in ValidIsoTimes /\ end_isotime \in ValidIsoTimes) =>
               /\ result # Raised("ValueError")
               /\ written # <<>> =>
                      /\ SentCommand.cmd = "SetReducedPeriodCommand"
                      /\ SentCommand.start_time_in_minutes = MinutesOfDay[start_isotime]
                      /\ SentCommand.end_time_in_minutes = MinutesOfDay[end_isotime]
                      /\ SentCommand.start_time_in_minutes \in 0..1439
                      /\ SentCommand.end_time_in_minutes \in 0..1439
        /\ (/\ is_active \in {"true", "True"}
            /\ start_isotime = <<"0", "6", ":", "0", "0">>
            /\ end_isotime = <<"2", "2", ":", "0", "0">>
            /\ written # <<>>) =>
               /\ SentCommand.cmd = "SetReducedPeriodCommand"
               /\ SentCommand.is_active = TRUE
               /\ SentCommand.start_time_in_minutes = 360
               /\ SentCommand.end_time_in_minutes = 1320
        /\ (/\ Finished
            /\ DidDecode
            /\ Decoded = Confirmation("ReducedPeriodSetNotification", TRUE)) =>
               result = Returned(Decoded)

\* set_reduced_period(true, 06:00, 22:00) returned the successful confirmation
C18_Witness ==
    /\ Finished
    /\ op = "set_reduced_period"
    /\ is_active = "true"
    /\ start_isotime = IsoTime(6, 0)
    /\ end_isotime = IsoTime(22, 0)
    /\ written # <<>>
    /\ SentCommand.start_time_in_minutes = 360
    /\ SentCommand.end_time_in_minutes = 1320
    /\ result = Returned(Confirmation("ReducedPeriodSetNotification", TRUE))

\* the command class of each operation's own kind
OwnCommand(o) ==
    CASE o = "authorize"                -> "AuthorizeCommand"
      [] o = "change_pin"               -> "ChangePinCommand"
      [] o = "reset_pin"                -> "ResetPinCommand"
      [] o \in {"power_on", "power_off"} -> "PowerSwitchCommand"
      [] o \in {"led_on", "led_off"}     -> "LEDSwitchCommand"
      [] o = "set_date_and_time"        -> "SynchronizeDateAndTimeCommand"
      [] o = "request_settings"         -> "RequestSettingsCommand"
      [] o = "set_power_limit"          -> "SetPowerLimitCommand"
      [] o = "set_prices"               -> "SetPricesCommand"
      [] o = "set_reduced_period"       -> "SetReducedPeriodCommand"
      [] o = "request_timer_status"     -> "RequestTimerStatusCommand"
      [] o = "set_timer"                -> "SetTimerCommand"
      [] o = "request_scheduler"        -> "RequestSchedulerCommand"

\* the notification class that mirrors a command class
MirrorOf(c) ==
    CASE c = "AuthorizeCommand"              -> "AuthorizationNotification"
      [] c = "ChangePinCommand"              -> "ChangePinNotification"
      [] c = "ResetPinCommand"               -> "ResetPinNotification"
      [] c = "PowerSwitchCommand"            -> "PowerSwitchNotification"
      [] c = "LEDSwitchCommand"              -> "LEDSwitchNotification"
      [] c = "SynchronizeDateAndTimeCommand" -> "SynchronizeDateAndTimeNotification"
      [] c = "RequestSettingsCommand"        -> "RequestedSettingsNotification"
      [] c = "SetPowerLimitCommand"          -> "PowerLimitSetNotification"
      [] c = "SetPricesCommand"              -> "PricesSetNotification"
      [] c = "SetReducedPeriodCommand"       -> "ReducedPeriodSetNotification"
      [] c = "RequestTimerStatusCommand"     -> "RequestedTimerStatusNotification"
      [] c = "SetTimerCommand"               -> "TimerSetNotification"
      [] c = "RequestSchedulerCommand"       -> "SchedulerRequestedNotification"

\* C19: every operation writes the command of its own kind (the power and LED
\* operations with on = true for _on and on = false for _off, authorize and
\* change_pin with the pin of the session) and returns only a notification of
\* the class that mirrors that command; a decoded notification of another
\* class, such as the one another operation expects, makes it raise.
C19_Correlation ==
    (op \in Ops /\ written # <<>>) =>
        /\ \A i \in 1..Len(written) : written[i].cmd = OwnCommand(op)
        /\ op \in {"power_on", "led_on"} => written[1].on = TRUE
        /\ op \in {"power_off", "led_off"} => written[1].on = FALSE
        /\ op \in {"authorize", "change_pin"} => written[1].pin = pin
        /\ result.kind = "returned" =>
               result.value.variant = MirrorOf(written[1].cmd)
        /\ (Finished /\ DidDecode /\ Decoded.variant # MirrorOf(written[1].cmd)) =>
               result.kind = "raised"

\* led_on decoded the confirmation power_on expects, and raised
C19_Witness ==
    /\ Finished
    /\ op = "led_on"
    /\ written = <<Command("LEDSwitchCommand", TRUE, 0)>>
    /\ DidDecode
    /\ Decoded.variant = "PowerSwitchNotification"
    /\ result = Raised("LED on failed")

\* the last fragment of the buffer ends in the sentinel
BufferComplete ==
    /\ raw_notifications # <<>>
    /\ EndsInSentinel(raw_notifications[Len(raw_notifications)])

\* C20: inside one exchange the command is encoded before anything is
\* written, written before the first wait for a fragment, and the buffer is
\* consumed and parsed only after the wait loop has ended (by a complete
\* buffer or by the timeout); a call whose encoding fails writes nothing, waits
\* for nothing and leaves the fragment buffer as it was.
C20_ExchangeOrder ==
    [][/\ (calls' # calls /\ result' = Raised(EncodeError)) =>
              /\ written' = <<>>
              /\ delivered' = <<>>
              /\ ~timedOut'
              /\ ~parsed'.called
              /\ raw_notifications' = raw_notifications
              /\ pc' = "ready"
       /\ (delivered' # delivered /\ delivered' # <<>>) =>
              (pc = "wait" /\ written # <<>>)
       /\ (timedOut' /\ ~timedOut) =>
              (pc = "wait" /\ written # <<>>)
       /\ (parsed'.called /\ parsed' # parsed) =>
              /\ pc = "consume"
              /\ written # <<>>
              /\ timedOut \/ BufferComplete
              /\ delivered' \in {delivered, <<>>}]_vars

\* the encoder rejected a command while fragments of an earlier exchange were
\* in the buffer
C20_Witness ==
    /\ Finished
    /\ result = Raised(EncodeError)
    /\ written = <<>>
    /\ raw_notifications # <<>>
    /\ prevFailed

\* the exchange consume_notification was last called for failed: its wait
\* timed out, or the buffer was refused as incomplete, or the parser rejected
\* the bytes, or the notification decoded is no scheduler page
PageFailed ==
    \/ timedOut
    \/ ~DidDecode
    \/ Decoded.variant # "SchedulerRequestedNotification"

\* C21: when the exchange of a page k of request_scheduler fails,
\* request_scheduler raises to its caller at once: the requests written are
\* those of the pages 0..k, each once, nothing is written for a later page or
\* for page k again, and no notification (no partial aggregate) is returned.
C21_PaginationAborts ==
    [][(pc = "consume" /\ op = "request_scheduler" /\ PageFailed') =>
          /\ result'.kind = "raised"
          /\ result'.value = None
          /\ pc' = "ready"
          /\ written' = written
          /\ Len(written) = page_number + 1
          /\ \A i \in 1..Len(written) :
                 written[i] = Command("RequestSchedulerCommand", FALSE, i - 1)]_vars

\* page 1 of request_scheduler decoded to a power-switch confirmation
C21_Witness ==
    /\ Finished
    /\ op = "request_scheduler"
    /\ page_number = 1
    /\ Len(written) = 2
    /\ DidDecode
    /\ Decoded.variant = "PowerSwitchNotification"
    /\ result = Raised("Request scheduler 2nd page failed")

\* C22: the driver keeps no authorization state: whenever it is ready for a
\* call (authorize never called, authorize raised, authorize returned, or any
\* other operation finished), every public operation can be called and its
\* call writes the operation's command and enters the wait for the response;
\* no call is refused locally.
C22_NoAuthorizationGuard ==
    (pc = "ready" /\ calls < MaxCalls) =>
        \A o \in Ops :
            ENABLED (/\ Call(o)
                     /\ written' = <<CommandOf(o, 0)>>
                     /\ pc' = "wait")

\* power_on is the first call of the session: its command is written and the
\* driver waits although authorize was never called
C22_Witness ==
    /\ calls = 1
    /\ op = "power_on"
    /\ pc = "wait"
    /\ written = <<Command("PowerSwitchCommand", TRUE, 0)>>
    /\ result = NoResult

\* the operation failed at its isinstance / was_successful test
FailedAtValidation ==
    \/ result = Raised(FailureOf(op))
    \/ result = Raised("Request scheduler 2nd page failed")

\* C23: every consume_notification whose parse succeeds leaves the fragment
\* buffer empty; so the buffer is empty when a public operation returns
\* normally and when it fails only at its validation of the notification
\* (wrong class or was_successful false).
C23_ConsumedOnce ==
    [][pc = "consume" =>
          /\ DidDecode' => raw_notifications' = <<>>
          /\ (Finished' /\ (result'.kind = "returned" \/ FailedAtValidation')) =>
                 /\ DidDecode'
                 /\ raw_notifications' = <<>>]_vars

\* authorize got an authorization notification with was_successful false in
\* two fragments: it raises and the buffer is empty
C23_Witness ==
    /\ Finished
    /\ op = "authorize"
    /\ Len(delivered) = 2
    /\ DidDecode
    /\ Decoded.variant = "AuthorizationNotification"
    /\ ~Decoded.was_successful
    /\ result = Raised("Authentication failed")
    /\ raw_notifications = <<>>

\* the step is a call of handleNotification
IsPush == pc = "push" /\ pc' = "push" /\ pending' # pending

\* the step is a call of consume_notification
IsTake == pc = "push" /\ pc' = "taken"

\* C24: a consume_notification that raises, because the buffer is incomplete
\* or because the parser rejects the bytes, leaves the buffer as it was, same
\* fragments in the same order; a consume_notification that returns leaves it
\* empty, after a successful parse; handleNotification appends its one
\* fragment at the end and changes nothing else of the buffer; nothing else
\* changes the buffer.
C24_FailureKeepsBuffer ==
    [][/\ IsTake =>
              /\ result'.kind \in {"raised", "returned"}
              /\ result'.kind = "raised" =>
                     /\ result'.error \in {IncompleteFrame, DecodeError}
                     /\ raw_notifications' = raw_notifications
                     /\ raw_notifications' = Pushed'
              /\ result'.kind = "returned" =>
                     /\ DidDecode'
                     /\ raw_notifications' = <<>>
       /\ IsPush =>
              /\ Len(raw_notifications') = Len(raw_notifications) + 1
              /\ SubSeq(raw_notifications', 1, Len(raw_notifications)) = raw_notifications
              /\ raw_notifications'[Len(raw_notifications')] = Head(pending)
       /\ (~IsTake /\ ~IsPush) => raw_notifications' = raw_notifications]_vars

\* two fragments whose bytes end in the sentinel but are no frame the parser
\* accepts: the parser was called, consume_notification raised, and both
\* fragments are still in the buffer in their order
C24_Witness ==
    /\ pc = "taken"
    /\ Len(Pushed) = 2
    /\ parsed.called
    /\ ~parse(parsed.data).ok
    /\ result = Raised(DecodeError)
    /\ raw_notifications = Pushed

====
